---- MODULE Spec2Model ----
(***************************************************************************)
(* A model of bunvas (src/src/image.ts): the RGBA pixel buffer `Image`,    *)
(* its colour normalisation `Image.util.toColor`, and the batching drawing *)
(* layer `ImageDrawer` with its shape algorithms.                          *)
(*                                                                         *)
(* JavaScript numbers are modelled as extended rationals <<n, d>> with     *)
(* d >= 0: d > 0 is the finite number n/d, <<0, 0>> is NaN, <<1, 0>> and   *)
(* <<-1, 0>> are +Infinity and -Infinity.  Arithmetic is exact; the        *)
(* binary rounding of IEEE doubles is not modelled.                        *)
(*                                                                         *)
(* JavaScript strings are modelled as sequences of one-character strings.  *)
(***************************************************************************)
EXTENDS Integers, Sequences, FiniteSets, TLC

VARIABLES
    width,            \* Image.width
    height,           \* Image.height
    buffer,           \* Image.buffer, one <<r, g, b, a>> of bytes per pixel
    temporaryBuffer,  \* ImageDrawer.temporaryBuffer, in insertion order
    flushDisablers,   \* ImageDrawer.flushDisablers
    blending,         \* ImageDrawer.blending
    lineThickness,    \* ImageDrawer.lineThickness
    op,               \* the last top-level call: its name and arguments
    outcome,          \* what the last top-level call did (see Call)
    shadow,           \* a second drawer and image, never given a failing call
    ncalls            \* number of top-level calls made so far

vars == <<width, height, buffer, temporaryBuffer, flushDisablers, blending,
          lineThickness, op, outcome, shadow, ncalls>>

----------------------------------------------------------------------------
(* Numbers *)

Abs(i) == IF i < 0 THEN -i ELSE i

Sign(i) == IF i < 0 THEN -1 ELSE IF i > 0 THEN 1 ELSE 0

Min(i, j) == IF i <= j THEN i ELSE j

Max(i, j) == IF i >= j THEN i ELSE j

\* F applied to the value v: names a value that is used more than once
With(v, F(_)) == F(v)

RECURSIVE GCD(_, _)
GCD(i, j) == IF j = 0 THEN i ELSE GCD(j, i % j)

\* the canonical form of the extended rational n/d
Norm(n, d) ==
    IF d = 1 THEN <<n, 1>>
    ELSE IF d = 0 THEN <<Sign(n), 0>>
    ELSE With(Sign(d) * GCD(Abs(n), Abs(d)), LAMBDA g : <<n \div g, d \div g>>)

Num(i) == <<i, 1>>

NaN == <<0, 0>>

IsNaN(q) == q[1] = 0 /\ q[2] = 0

IsFinite(q) == q[2] > 0

Add(p, q) == Norm(p[1] * q[2] + q[1] * p[2], p[2] * q[2])

Sub(p, q) == Norm(p[1] * q[2] - q[1] * p[2], p[2] * q[2])

Mul(p, q) == Norm(p[1] * q[1], p[2] * q[2])

Div(p, q) == Norm(p[1] * q[2], p[2] * q[1])

Lt(p, q) == p[1] * q[2] < q[1] * p[2]

Le(p, q) == ~IsNaN(p) /\ ~IsNaN(q) /\ p[1] * q[2] <= q[1] * p[2]

\* Math.floor of a finite number, as an integer
Floor(q) == q[1] \div q[2]

\* Math.round: the nearest integer, halves towards +Infinity; NaN and the
\* infinities are returned unchanged
MathRound(q) == IF IsFinite(q) THEN Num((2 * q[1] + q[2]) \div (2 * q[2])) ELSE q

\* Math.round of a finite number, as an integer
RoundInt(q) == (2 * q[1] + q[2]) \div (2 * q[2])

\* the conversion of a number stored into a Uint8ClampedArray: NaN is 0, the
\* value is clamped to [0, 255] and rounded to nearest, halves to even
ToUint8Clamp(q) ==
    IF IsNaN(q) THEN 0
    ELSE IF Le(q, Num(0)) THEN 0
    ELSE IF Le(Num(255), q) THEN 255
    ELSE With(Floor(q), LAMBDA f :
         \* twice the fractional part, in units of 1 / q[2]
         With(2 * (q[1] - f * q[2]), LAMBDA twice :
             IF twice < q[2] THEN f
             ELSE IF twice > q[2] THEN f + 1
             ELSE IF f % 2 = 0 THEN f ELSE f + 1))

----------------------------------------------------------------------------
(* Colours *)

\* A Color argument is [type |-> "array", v |-> a sequence of numbers] or
\* [type |-> "string", v |-> a sequence of characters].
ArrayColor(s) == [type |-> "array", v |-> [i \in DOMAIN s |-> Num(s[i])]]

StringColor(s) == [type |-> "string", v |-> s]

\* the characters that are digits, with their values
DigitValues ==
    [ch \in {"0", "1", "2", "3", "4", "5", "6", "7", "8", "9", "A", "B", "C", "D",
             "E", "F", "a", "b", "c", "d", "e", "f"} |->
        CASE ch = "0" -> 0 [] ch = "1" -> 1 [] ch = "2" -> 2 [] ch = "3" -> 3
          [] ch = "4" -> 4 [] ch = "5" -> 5 [] ch = "6" -> 6 [] ch = "7" -> 7
          [] ch = "8" -> 8 [] ch = "9" -> 9
          [] ch \in {"A", "a"} -> 10 [] ch \in {"B", "b"} -> 11
          [] ch \in {"C", "c"} -> 12 [] ch \in {"D", "d"} -> 13
          [] ch \in {"E", "e"} -> 14 [] ch \in {"F", "f"} -> 15]

\* the value of character ch as a digit in the given radix, or -1
DigitValue(ch, radix) ==
    IF ch \in DOMAIN DigitValues /\ DigitValues[ch] < radix
    THEN DigitValues[ch] ELSE -1

\* the length of the longest prefix of s made of digits of the radix
RECURSIVE DigitPrefix(_, _)
DigitPrefix(s, radix) ==
    IF s = <<>> \/ DigitValue(Head(s), radix) < 0 THEN 0
    ELSE 1 + DigitPrefix(Tail(s), radix)

RECURSIVE DigitsValue(_, _, _)
DigitsValue(s, radix, acc) ==
    IF s = <<>> THEN acc
    ELSE DigitsValue(Tail(s), radix, acc * radix + DigitValue(Head(s), radix))

\* parseInt(s, radix) on a string without sign or leading white space: the
\* value of the longest prefix of digits, NaN when there is none
ParseInt(s, radix) ==
    With(DigitPrefix(s, radix), LAMBDA n :
        IF n = 0 THEN NaN ELSE Num(DigitsValue(SubSeq(s, 1, n), radix, 0)))

\* s.slice(from, to) with 0-based from, exclusive to
Slice(s, from, to) == SubSeq(s, from + 1, Min(to, Len(s)))

StartsWith(s, prefix) ==
    Len(s) >= Len(prefix) /\ SubSeq(s, 1, Len(prefix)) = prefix

\* the number of leading white-space characters of s
RECURSIVE SpacePrefix(_)
SpacePrefix(s) ==
    IF s = <<>> \/ Head(s) # " " THEN 0 ELSE 1 + SpacePrefix(Tail(s))

\* the digits at the start of s, and what follows them
TakeDigits(s) == SubSeq(s, 1, DigitPrefix(s, 10))

DropDigits(s) == SubSeq(s, DigitPrefix(s, 10) + 1, Len(s))

\* what follows a comma and white space at the start of s; <<>> when s does
\* not start with a comma
DropComma(s) ==
    IF s # <<>> /\ Head(s) = ","
    THEN SubSeq(s, SpacePrefix(Tail(s)) + 2, Len(s))
    ELSE <<>>

\* color.match(/^hsl\((\d+),\s*(\d+),\s*(\d+)\)$/): the three captured
\* groups, or <<>> when the string does not match
HslMatch(s) ==
    With(SubSeq(s, 5, Len(s)), LAMBDA r1 :
    With(DropComma(DropDigits(r1)), LAMBDA r2 :
    With(DropComma(DropDigits(r2)), LAMBDA r3 :
        IF /\ StartsWith(s, <<"h", "s", "l", "(">>)
           /\ TakeDigits(r1) # <<>>
           /\ TakeDigits(r2) # <<>>
           /\ TakeDigits(r3) # <<>>
           /\ DropDigits(r3) = <<")">>
        THEN <<TakeDigits(r1), TakeDigits(r2), TakeDigits(r3)>>
        ELSE <<>>)))

\* the channel round((component + m) * 255) of the hsl branch of toColor
HslChannel(component, m) == MathRound(Mul(Add(component, m), Num(255)))

\* the hsl branch of toColor on the parsed components
HslToRgb(h, s, l) ==
    With(Div(Mul(Div(Num(l), Num(100)), Num(s)), Num(100)), LAMBDA c :
    \* (h / 60) % 2 for an integer h >= 0 is (h % 120) / 60
    With(Mul(c, Sub(Num(1), Div(Num(Abs((h % 120) - 60)), Num(60)))), LAMBDA x :
    With(Sub(Div(Num(l), Num(100)), c), LAMBDA m :
    With(IF h < 60 THEN <<c, x, Num(0)>>
         ELSE IF h < 120 THEN <<x, c, Num(0)>>
         ELSE IF h < 180 THEN <<Num(0), c, x>>
         ELSE IF h < 240 THEN <<Num(0), x, c>>
         ELSE IF h < 300 THEN <<x, Num(0), c>>
         ELSE IF h < 360 THEN <<c, Num(0), x>>
         ELSE <<Num(0), Num(0), Num(0)>>, LAMBDA rgb :
        << HslChannel(rgb[1], m), HslChannel(rgb[2], m), HslChannel(rgb[3], m),
           Num(255) >>))))

Invalid == [ok |-> FALSE, v |-> <<>>]

Valid(v) == [ok |-> TRUE, v |-> v]

\* Image.util.toColor: [ok |-> TRUE, v |-> the four channels], or ok = FALSE
\* when it throws Error('Invalid color')
toColor(color) ==
    IF color.type # "string"
    THEN IF Len(color.v) # 3 /\ Len(color.v) # 4 THEN Invalid
         ELSE Valid(IF Len(color.v) = 3 THEN Append(color.v, Num(255)) ELSE color.v)
    ELSE IF StartsWith(color.v, <<"h", "s", "l", "(">>)
    THEN With(HslMatch(color.v), LAMBDA match :
             IF match = <<>> THEN Invalid
             ELSE Valid(HslToRgb(DigitsValue(match[1], 10, 0),
                                 DigitsValue(match[2], 10, 0),
                                 DigitsValue(match[3], 10, 0))))
    ELSE IF StartsWith(color.v, <<"#">>)
    THEN IF Len(color.v) # 7 /\ Len(color.v) # 9 THEN Invalid
         ELSE With(Tail(color.v), LAMBDA hex :
                  Valid(<< ParseInt(Slice(hex, 0, 2), 16),
                           ParseInt(Slice(hex, 2, 4), 16),
                           ParseInt(Slice(hex, 4, 6), 16),
                           IF Len(hex) = 8 THEN ParseInt(Slice(hex, 6, 8), 16)
                                           ELSE Num(255) >>))
    ELSE Invalid

----------------------------------------------------------------------------
(* Image *)

\* A Point is <<x, y>>, a pair of numbers.
Pt(x, y) == <<Num(x), Num(y)>>

\* the buffer of a newly constructed Image: new Uint8ClampedArray(w * h * 4)
NewBuffer(w, h) == [i \in 0..(w * h - 1) |-> <<0, 0, 0, 0>>]

\* the result of a method of Image: the buffer afterwards, and whether the
\* method returned (ok) or toColor threw
Returned(buf) == [ok |-> TRUE, buf |-> buf]

Threw(buf) == [ok |-> FALSE, buf |-> buf]

\* Image.get: the four bytes at (y * width + x) * 4, each undefined (NaN in
\* the arithmetic of add) when the index is not an index of the buffer
ImageGet(buf, pixel) ==
    With(Add(Mul(pixel[2], Num(width)), pixel[1]), LAMBDA index :
        IF IsFinite(index) /\ index[2] = 1 /\ index[1] \in DOMAIN buf
        THEN [k \in 1..4 |-> Num(buf[index[1]][k])]
        ELSE <<NaN, NaN, NaN, NaN>>)

\* the part of Image.set after toColor has returned colorNormalized
SetNormalized(buf, x, y, colorNormalized) ==
    IF \/ Lt(x, Num(0)) \/ Le(Num(width), x)
       \/ Lt(y, Num(0)) \/ Le(Num(height), y)
    THEN Returned(buf)
    \* a NaN coordinate passes the comparisons and indexes nothing
    ELSE IF ~IsFinite(x) \/ ~IsFinite(y) THEN Returned(buf)
    ELSE Returned([buf EXCEPT ![y[1] * width + x[1]] =
                      [k \in 1..4 |-> ToUint8Clamp(colorNormalized[k])]])

\* Image.set
ImageSet(buf, pixel, color) ==
    With(toColor(color), LAMBDA colorNormalized :
        IF ~colorNormalized.ok THEN Threw(buf)
        ELSE SetNormalized(buf, MathRound(pixel[1]), MathRound(pixel[2]),
                           colorNormalized.v))

\* r3, g3 and b3 of Image.add
BlendChannel(current, new, alpha, alphaComplement) ==
    MathRound(Add(Mul(current, alphaComplement), Mul(new, alpha)))

\* the part of Image.add after toColor has returned colorNormalized; its
\* set is given an array of four numbers, which toColor returns unchanged
AddNormalized(buf, pixel, currentColor, colorNormalized) ==
    With(Div(colorNormalized[4], Num(255)), LAMBDA alpha :
    With(Sub(Num(1), alpha), LAMBDA alphaComplement :
        SetNormalized(buf, MathRound(pixel[1]), MathRound(pixel[2]),
            << BlendChannel(currentColor[1], colorNormalized[1], alpha, alphaComplement),
               BlendChannel(currentColor[2], colorNormalized[2], alpha, alphaComplement),
               BlendChannel(currentColor[3], colorNormalized[3], alpha, alphaComplement),
               Add(currentColor[4], Mul(colorNormalized[4], alphaComplement)) >>)))

\* Image.add: sets a pixel with alpha blending
ImageAdd(buf, pixel, color) ==
    With(toColor(color), LAMBDA colorNormalized :
        IF ~colorNormalized.ok THEN Threw(buf)
        ELSE AddNormalized(buf, pixel, ImageGet(buf, pixel), colorNormalized.v))

----------------------------------------------------------------------------
(* ImageDrawer: the state of the drawer and its image during one call *)

\* A call runs on a record d:
\*   buf, tb, fd   the image buffer, temporaryBuffer and flushDisablers
\*   err           "" or the message of the Error that was thrown
\*   calls         the pixels passed to setPixel, in order
\*   writes        the <<"add" or "set", x, y>> calls made on the image, in order
\*   nflush        the number of calls of flush so far
\*   mutAt         the ordinals of the calls of flush that called the image
\*   fdAt          the value of flushDisablers found by each call of flush
\*   fdLow         the lowest value flushDisablers has had
Start(buf, tb, fd) ==
    [buf |-> buf, tb |-> tb, fd |-> fd, err |-> "", calls |-> <<>>,
     writes |-> <<>>, nflush |-> 0, mutAt |-> {}, fdAt |-> <<>>, fdLow |-> fd]

\* throw new Error(message)
Throw(d, message) == [d EXCEPT !.err = message]

\* the rest of a method after a call that returned d: nothing when the call
\* threw, as no method catches an Error
Then(d, F(_)) == IF d.err # "" THEN d ELSE F(d)

\* Map.prototype.set on a map kept as the sequence of its <<key, value>>
\* entries in insertion order: an existing key keeps its place
MapSet(m, key, value) ==
    IF \E i \in DOMAIN m : m[i][1] = key
    THEN [i \in DOMAIN m |-> IF m[i][1] = key THEN <<key, value>> ELSE m[i]]
    ELSE Append(m, <<key, value>>)

\* ImageDrawer.setPixel
setPixel(d, pixel, color) ==
    IF \/ Lt(pixel[1], Num(0)) \/ Le(Num(width), pixel[1])
       \/ Lt(pixel[2], Num(0)) \/ Le(Num(height), pixel[2])
    THEN [d EXCEPT !.calls = Append(@, pixel)]
    ELSE [d EXCEPT !.calls = Append(@, pixel),
                   !.tb = MapSet(@, RoundInt(pixel[2]) * width + RoundInt(pixel[1]),
                                 color)]

\* setPixel on each point of a sequence, in order
RECURSIVE StageFrom(_, _, _, _)
StageFrom(d, points, i, color) ==
    IF i > Len(points) THEN d
    ELSE StageFrom(setPixel(d, points[i], color), points, i + 1, color)

StageAll(d, points, color) == StageFrom(d, points, 1, color)

\* one iteration of the loop of flush, on the entry <<index, color>>: d with
\* the call of add or set recorded, and its result r
FlushEntry(d, index, color) ==
    [d |-> [d EXCEPT !.writes = Append(@, <<IF blending THEN "add" ELSE "set",
                                            index % width, index \div width>>),
                     !.mutAt = @ \cup {d.nflush}],
     r |-> IF blending
           THEN ImageAdd(d.buf, Pt(index % width, index \div width), color)
           ELSE ImageSet(d.buf, Pt(index % width, index \div width), color)]

\* the loop of flush over the entries of temporaryBuffer from the i-th on,
\* then temporaryBuffer.clear(); an Error thrown by add or set ends it
RECURSIVE FlushFrom(_, _)
FlushFrom(d, i) ==
    IF i > Len(d.tb) THEN [d EXCEPT !.tb = <<>>]
    ELSE With(FlushEntry(d, d.tb[i][1], d.tb[i][2]), LAMBDA e :
             IF ~e.r.ok THEN Throw(e.d, "Invalid color")
             ELSE FlushFrom([e.d EXCEPT !.buf = e.r.buf], i + 1))

\* a flush that does not return early while flushDisablers is nonzero
flushAlways(d) ==
    FlushFrom([d EXCEPT !.nflush = @ + 1, !.fdAt = Append(@, d.fd)], 1)

\* ImageDrawer.flush
flush(d) ==
    IF d.fd # 0 THEN [d EXCEPT !.nflush = @ + 1, !.fdAt = Append(@, d.fd)]
    ELSE FlushFrom([d EXCEPT !.nflush = @ + 1, !.fdAt = Append(@, d.fd)], 1)

\* the values i, i + 1, ... of  for (let i = lo; i <= hi; i++)
Range(lo, hi) ==
    IF Le(lo, hi) THEN [k \in 1..(Floor(Sub(hi, lo)) + 1) |-> Add(lo, Num(k - 1))]
    ELSE <<>>

\* the points <<xs[k], y>> for k = 1, 2, ...
Row(xs, y) == [k \in DOMAIN xs |-> <<xs[k], y>>]

\* the points <<x, ys[k]>> for k = 1, 2, ...
Column(x, ys) == [k \in DOMAIN ys |-> <<x, ys[k]>>]

\* the concatenation of the sequences f[1], ..., f[n]
RECURSIVE Concat(_, _)
Concat(f, n) == IF n = 0 THEN <<>> ELSE Concat(f, n - 1) \o f[n]

\* the elements of s and t alternating: s[1], t[1], s[2], t[2], ...
Interleave(s, t) ==
    [k \in 1..(2 * Len(s)) |-> IF k % 2 = 1 THEN s[(k + 1) \div 2] ELSE t[k \div 2]]

\* the points drawFilledRectangle passes to setPixel
FilledRectanglePoints(xs, ys) == Concat([j \in DOMAIN ys |-> Row(xs, ys[j])], Len(ys))

\* ImageDrawer.drawFilledRectangle
drawFilledRectangle(d, start, end, color) ==
    flush(StageAll(d, FilledRectanglePoints(Range(start[1], end[1]),
                                            Range(start[2], end[2])), color))

\* the points drawRectangle passes to setPixel
RectanglePoints(start, end, xs, ys) ==
    Interleave(Row(xs, start[2]), Row(xs, end[2]))
    \o Interleave(Column(start[1], ys), Column(end[1], ys))

\* ImageDrawer.drawRectangle
drawRectangle(d, start, end, color) ==
    flush(StageAll(d, RectanglePoints(start, end, Range(start[1], end[1]),
                                      Range(start[2], end[2])), color))

\* the step of the decision variable shared by the two circle loops:
\* <<y, d>> after the iteration at x
CircleStep(x, y, dd) ==
    IF Lt(Num(0), dd)
    THEN <<Sub(y, Num(1)),
           Add(Add(dd, Mul(Num(4), Sub(x, Sub(y, Num(1))))), Num(10))>>
    ELSE <<y, Add(Add(dd, Mul(Num(4), x)), Num(6))>>

\* the eight points drawCircle stages in the iteration at x
Octants(xc, yc, x, y) ==
    << <<Add(xc, x), Add(yc, y)>>, <<Sub(xc, x), Add(yc, y)>>,
       <<Add(xc, x), Sub(yc, y)>>, <<Sub(xc, x), Sub(yc, y)>>,
       <<Add(xc, y), Add(yc, x)>>, <<Sub(xc, y), Add(yc, x)>>,
       <<Add(xc, y), Sub(yc, x)>>, <<Sub(xc, y), Sub(yc, x)>> >>

\* the loop of drawCircle from x on: the points it passes to setPixel
RECURSIVE CirclePoints(_, _, _, _)
CirclePoints(center, x, y, dd) ==
    IF ~Le(x, y) THEN <<>>
    ELSE With(CircleStep(x, y, dd), LAMBDA next :
             Octants(center[1], center[2], x, y)
             \o CirclePoints(center, Add(x, Num(1)), next[1], next[2]))

\* ImageDrawer.drawCircle
drawCircle(d, center, radius, color) ==
    flush(StageAll(d, CirclePoints(center, Num(0), radius,
                                   Sub(Num(3), Mul(Num(2), radius))), color))

\* the points drawFilledCircle stages in one of its inner loops: for each i
\* of is, the points (i, yc + dy) and (i, yc - dy)
Spans(is, yc, dy) == Interleave(Row(is, Add(yc, dy)), Row(is, Sub(yc, dy)))

\* the loop of drawFilledCircle from x on: the points it passes to setPixel
RECURSIVE FilledCirclePoints(_, _, _, _)
FilledCirclePoints(center, x, y, dd) ==
    IF ~Le(x, y) THEN <<>>
    ELSE With(CircleStep(x, y, dd), LAMBDA next :
             Spans(Range(Sub(center[1], x), Add(center[1], x)), center[2], y)
             \o Spans(Range(Sub(center[1], y), Add(center[1], y)), center[2], x)
             \o FilledCirclePoints(center, Add(x, Num(1)), next[1], next[2]))

\* ImageDrawer.drawFilledCircle
drawFilledCircle(d, center, radius, color) ==
    flush(StageAll(d, FilledCirclePoints(center, Num(0), radius,
                                         Sub(Num(3), Mul(Num(2), radius))), color))

\* this.flushDisablers++
disableFlush(d) == [d EXCEPT !.fd = @ + 1]

\* a flushDisablers-- that is never executed
enableFlushSkipped(d) == d

\* this.flushDisablers--
enableFlush(d) == [d EXCEPT !.fd = @ - 1, !.fdLow = Min(@, d.fd - 1)]

\* what drawLine does at the point (x0, y0): a filled circle with flush
\* disabled when lineThickness > 1, else one setPixel
Plot(d, x0, y0, color) ==
    IF Lt(Num(1), lineThickness)
    THEN Then(drawFilledCircle(disableFlush(d), Pt(x0, y0),
                               Div(lineThickness, Num(2)), color),
              enableFlush)
    ELSE setPixel(d, Pt(x0, y0), color)

\* the point and the error term after one iteration of the loop of drawLine:
\* <<x0, y0, err>> with e2 = 2 * err, delta = <<dx, dy, sx, sy>>
LineStep(x0, y0, err, e2, delta) ==
    << IF e2 > -delta[2] THEN x0 + delta[3] ELSE x0,
       IF e2 < delta[1] THEN y0 + delta[4] ELSE y0,
       (IF e2 > -delta[2] THEN err - delta[2] ELSE err)
           + (IF e2 < delta[1] THEN delta[1] ELSE 0) >>

\* the while loop of drawLine from the point (x0, y0) with error term err
RECURSIVE LineLoop(_, _, _, _, _, _, _)
\* a loop that tests for the end point before it plots, and so leaves it out
LineLoopEndExcluded(d, x0, y0, err, end, delta, color) ==
    IF x0 = end[1] /\ y0 = end[2] THEN d
    ELSE Then(Plot(d, x0, y0, color), LAMBDA d1 :
             With(LineStep(x0, y0, err, 2 * err, delta), LAMBDA n :
                 LineLoop(d1, n[1], n[2], n[3], end, delta, color)))

LineLoop(d, x0, y0, err, end, delta, color) ==
    Then(Plot(d, x0, y0, color), LAMBDA d1 :
        IF x0 = end[1] /\ y0 = end[2] THEN d1
        ELSE With(LineStep(x0, y0, err, 2 * err, delta), LAMBDA n :
                 LineLoop(d1, n[1], n[2], n[3], end, delta, color)))

\* drawLine on the rounded end points (x0, y0) and (x1, y1)
LineFrom(d, x0, y0, x1, y1, dx, dy, color) ==
    Then(LineLoop(d, x0, y0, dx - dy, <<x1, y1>>,
                  <<dx, dy, IF x0 < x1 THEN 1 ELSE -1, IF y0 < y1 THEN 1 ELSE -1>>,
                  color),
         flush)

\* ImageDrawer.drawLine (Bresenham's line algorithm) on finite end points
drawLine(d, start, end, color) ==
    LineFrom(d, RoundInt(start[1]), RoundInt(start[2]),
             RoundInt(end[1]), RoundInt(end[2]),
             Abs(RoundInt(end[1]) - RoundInt(start[1])),
             Abs(RoundInt(end[2]) - RoundInt(start[2])), color)

\* the values y, y + 1, ... of  for (let y = lo; y < hi; y++)
RangeBelow(lo, hi) ==
    IF Lt(lo, hi) THEN [k \in 1..(-Floor(Sub(lo, hi))) |-> Add(lo, Num(k - 1))]
    ELSE <<>>

\* one pass of drawTriangle over the scanlines ys: the points it stages when
\* it starts with the given xStart and xEnd and adds dx1 and dx2 after each
TrianglePass(ys, xStart, xEnd, dx1, dx2) ==
    Concat([k \in DOMAIN ys |->
               Row(Range(MathRound(Add(xStart, Mul(Num(k - 1), dx1))),
                         MathRound(Add(xEnd, Mul(Num(k - 1), dx2)))),
                   ys[k])],
           Len(ys))

\* the first loop of drawTriangle, which runs when y0 < y1
FirstPass(a, b, c, ys) ==
    IF ys = <<>> THEN <<>>
    ELSE TrianglePass(ys, a[1], a[1],
                      Div(Sub(b[1], a[1]), Sub(b[2], a[2])),
                      Div(Sub(c[1], a[1]), Sub(c[2], a[2])))

\* xStart after the first loop: x0 plus dx1 once for each of its n scanlines
StartAfter(a, b, n) ==
    IF n = 0 THEN a[1]
    ELSE Add(a[1], Mul(Num(n), Div(Sub(b[1], a[1]), Sub(b[2], a[2]))))

\* the second loop of drawTriangle, which runs when y1 < y2, with xEnd = x1
SecondPass(a, b, c, xStart, ys) ==
    IF ys = <<>> THEN <<>>
    ELSE TrianglePass(ys, xStart, b[1],
                      Div(Sub(c[1], b[1]), Sub(c[2], b[2])),
                      Div(Sub(c[1], a[1]), Sub(c[2], a[2])))

\* the points drawTriangle passes to setPixel (a slope is read only in a
\* loop that runs, where it is finite)
TrianglePoints(a, b, c) ==
    FirstPass(a, b, c, RangeBelow(a[2], b[2]))
    \o SecondPass(a, b, c, StartAfter(a, b, Len(RangeBelow(a[2], b[2]))),
                  RangeBelow(b[2], c[2]))

\* ImageDrawer.drawTriangle (scanline rasterization)
drawTriangle(d, triangle, color) ==
    flush(StageAll(d, TrianglePoints(triangle[1], triangle[2], triangle[3]), color))

\* the for loop of drawPath from the i-th point on
RECURSIVE PathLoop(_, _, _, _, _)
PathLoop(d, lastPoint, points, i, color) ==
    IF i > Len(points) THEN d
    ELSE Then(drawLine(d, lastPoint, points[i], color), LAMBDA d1 :
             PathLoop(d1, points[i], points, i + 1, color))

\* this.flushDisablers--; this.flush()
Release(d) == flush(enableFlush(d))

\* ImageDrawer.drawPath
drawPath(d, points, color) ==
    IF Len(points) < 2 THEN Throw(d, "Invalid points")
    ELSE Then(PathLoop(disableFlush(d), points[1], points, 2, color), Release)

\* lerpPoints: the reduction of the points to one by pairwise interpolation
RECURSIVE lerpPoints(_, _)
lerpPoints(points, t) ==
    IF Len(points) <= 1 THEN points[1]
    ELSE lerpPoints([i \in 1..(Len(points) - 1) |->
                        << Add(points[i][1],
                               Mul(Sub(points[i + 1][1], points[i][1]), t)),
                           Add(points[i][2],
                               Mul(Sub(points[i + 1][2], points[i][2]), t)) >>],
                    t)

\* Math.min and Math.max on two finite numbers
MathMin(u, v) == IF Lt(v, u) THEN v ELSE u

MathMax(u, v) == IF Lt(u, v) THEN v ELSE u

\* points.reduce with Math.min (least) or Math.max on each coordinate
RECURSIVE Reduce(_, _, _)
Reduce(points, i, least) ==
    IF i = 1 THEN points[1]
    ELSE With(Reduce(points, i - 1, least), LAMBDA a :
             IF least
             THEN <<MathMin(a[1], points[i][1]), MathMin(a[2], points[i][2])>>
             ELSE <<MathMax(a[1], points[i][1]), MathMax(a[2], points[i][2])>>)

\* Math.abs
RAbs(q) == IF Lt(q, Num(0)) THEN Sub(Num(0), q) ELSE q

\* the for loop of drawBezier from parameter t on (t += step is exact here)
RECURSIVE BezierLoop(_, _, _, _, _, _)
BezierLoop(d, lastPoint, points, t, step, color) ==
    IF ~Le(t, Num(1)) THEN d
    ELSE With(lerpPoints(points, t), LAMBDA point :
             Then(drawLine(d, lastPoint, point, color), LAMBDA d1 :
                 BezierLoop(d1, point, points, Add(t, step), step, color)))

\* the step drawBezier takes when it is called without one
DefaultStep(lo, hi) ==
    Div(Num(1), RAbs(Sub(RAbs(Sub(hi[1], lo[1])), RAbs(Sub(hi[2], lo[2])))))

\* ImageDrawer.drawBezier called without a step
drawBezier(d, points, color) ==
    IF Len(points) < 2 THEN Throw(d, "Invalid points")
    ELSE With(DefaultStep(Reduce(points, Len(points), TRUE),
                          Reduce(points, Len(points), FALSE)), LAMBDA step :
             Then(BezierLoop(disableFlush(d), points[1], points, step, step, color),
                  Release))

\* the buffer after fill has set every pixel to normalizedColor
Filled(buf, normalizedColor) ==
    [i \in DOMAIN buf |-> [k \in 1..4 |-> ToUint8Clamp(normalizedColor[k])]]

\* ImageDrawer.fill
fill(d, color) ==
    With(toColor(color), LAMBDA normalizedColor :
        IF ~normalizedColor.ok THEN Throw([d EXCEPT !.tb = <<>>], "Invalid color")
        ELSE [d EXCEPT !.tb = <<>>, !.buf = Filled(d.buf, normalizedColor.v)])

----------------------------------------------------------------------------
(* Top-level calls *)

\* the names of the drawing operations of ImageDrawer
DrawNames == {"drawLine", "drawRectangle", "drawFilledRectangle", "drawCircle",
              "drawFilledCircle", "drawTriangle", "drawPath", "drawBezier"}

NoColor == [type |-> "array", v |-> <<>>]

\* the state after new Image(w, h) and the first read of image.drawer
InitOf(w, h) ==
    /\ width = w
    /\ height = h
    /\ buffer = NewBuffer(w, h)
    /\ temporaryBuffer = <<>>
    /\ flushDisablers = 0
    /\ blending = TRUE
    /\ lineThickness = Num(1)
    /\ op = [name |-> "new", points |-> <<>>, radius |-> Num(0), color |-> NoColor]
    /\ outcome = [err |-> "", calls |-> <<>>, writes |-> <<>>, nflush |-> 0,
                  mutAt |-> {}, fdAt |-> <<>>, fdLow |-> 0,
                  before |-> NewBuffer(w, h), pending |-> <<>>,
                  blending |-> TRUE, lineThickness |-> Num(1), value |-> <<>>]
    /\ shadow = [buf |-> NewBuffer(w, h), tb |-> <<>>, fd |-> 0]
    /\ ncalls = 0

\* the drawer with its image as a call finds them
Drawer == Start(buffer, temporaryBuffer, flushDisablers)

\* a second drawer on a second image, which receives the same calls as the
\* first except those that throw on it
Shadow == Start(shadow.buf, shadow.tb, shadow.fd)

\* One top-level call of a method of the drawer, where result[d] is what the
\* method does when called on d.  outcome records what the call did, with the
\* buffer, the pending writes and the configuration it started from, and the
\* value it returned (none for a method of the drawer).  The caller counts
\* the call in ncalls.
Call(name, points, radius, color, result) ==
    \E d \in {result[Drawer]} :
    \E s \in {IF Shadow = Drawer THEN d ELSE result[Shadow]} :
        /\ buffer' = d.buf
        /\ temporaryBuffer' = d.tb
        /\ flushDisablers' = d.fd
        /\ op' = [name |-> name, points |-> points, radius |-> radius,
                  color |-> color]
        /\ outcome' = [err |-> d.err, calls |-> d.calls, writes |-> d.writes,
                       nflush |-> d.nflush, mutAt |-> d.mutAt, fdAt |-> d.fdAt,
                       fdLow |-> d.fdLow, before |-> buffer,
                       pending |-> temporaryBuffer, blending |-> blending,
                       lineThickness |-> lineThickness, value |-> <<>>]
        /\ shadow' = IF s.err = "" THEN [buf |-> s.buf, tb |-> s.tb, fd |-> s.fd]
                     ELSE shadow
        /\ UNCHANGED <<width, height, blending, lineThickness>>

\* an assignment to drawer.blending or drawer.lineThickness
Configure(b, t) ==
    /\ blending' = b
    /\ lineThickness' = t
    /\ UNCHANGED <<width, height, buffer, temporaryBuffer, flushDisablers,
                   op, outcome, shadow>>

SetBlending(B) == \E b \in B : b # blending /\ Configure(b, lineThickness)

SetLineThickness(T) == \E t \in T : t # lineThickness /\ Configure(blending, t)

Fill(C) ==
    \E c \in C :
        Call("fill", <<>>, Num(0), c, [d \in {Drawer, Shadow} |-> fill(d, c)])

DrawLine(S, E, C) ==
    \E s \in S, e \in E, c \in C :
        Call("drawLine", <<s, e>>, Num(0), c,
             [d \in {Drawer, Shadow} |-> drawLine(d, s, e, c)])

DrawRectangle(S, E, C) ==
    \E s \in S, e \in E, c \in C :
        Call("drawRectangle", <<s, e>>, Num(0), c,
             [d \in {Drawer, Shadow} |-> drawRectangle(d, s, e, c)])

DrawFilledRectangle(S, E, C) ==
    \E s \in S, e \in E, c \in C :
        Call("drawFilledRectangle", <<s, e>>, Num(0), c,
             [d \in {Drawer, Shadow} |-> drawFilledRectangle(d, s, e, c)])

DrawCircle(P, R, C) ==
    \E p \in P, r \in R, c \in C :
        Call("drawCircle", <<p>>, r, c,
             [d \in {Drawer, Shadow} |-> drawCircle(d, p, r, c)])

DrawFilledCircle(P, R, C) ==
    \E p \in P, r \in R, c \in C :
        Call("drawFilledCircle", <<p>>, r, c,
             [d \in {Drawer, Shadow} |-> drawFilledCircle(d, p, r, c)])

\* the vertices are given in non-decreasing y order, as drawTriangle expects
DrawTriangle(T, C) ==
    \E t \in T, c \in C :
        /\ Le(t[1][2], t[2][2]) /\ Le(t[2][2], t[3][2])
        /\ Call("drawTriangle", t, Num(0), c,
                [d \in {Drawer, Shadow} |-> drawTriangle(d, t, c)])

DrawPath(L, C) ==
    \E l \in L, c \in C :
        Call("drawPath", l, Num(0), c,
             [d \in {Drawer, Shadow} |-> drawPath(d, l, c)])

DrawBezier(L, C) ==
    \E l \in L, c \in C :
        Call("drawBezier", l, Num(0), c,
             [d \in {Drawer, Shadow} |-> drawBezier(d, l, c)])

\* One call of a method of the image, where r is what the method does on
\* the buffer.
ImageCall(name, pixel, color, r) ==
    /\ buffer' = r.buf
    /\ op' = [name |-> name, points |-> <<pixel>>, radius |-> Num(0),
              color |-> color]
    /\ outcome' = [err |-> IF r.ok THEN "" ELSE "Invalid color", calls |-> <<>>,
                   writes |-> <<>>, nflush |-> 0, mutAt |-> {}, fdAt |-> <<>>,
                   fdLow |-> flushDisablers, before |-> buffer,
                   pending |-> temporaryBuffer, blending |-> blending,
                   lineThickness |-> lineThickness, value |-> <<>>]
    /\ UNCHANGED <<width, height, temporaryBuffer, flushDisablers, blending,
                   lineThickness, shadow>>

ImageSetCall(P, C) ==
    \E p \in P, c \in C : ImageCall("set", p, c, ImageSet(buffer, p, c))

ImageAddCall(P, C) ==
    \E p \in P, c \in C : ImageCall("add", p, c, ImageAdd(buffer, p, c))

\* the decimal digits of a natural number, as String(n) gives them
RECURSIVE Decimal(_)
Decimal(n) ==
    IF n < 10 THEN <<SubSeq(<<"0", "1", "2", "3", "4", "5", "6", "7", "8", "9">>,
                            n + 1, n + 1)[1]>>
    ELSE Decimal(n \div 10) \o Decimal(n % 10)

\* the template string `hsl(${h}, ${s}, ${l})`
HslString(h, s, l) ==
    StringColor(<<"h", "s", "l", "(">> \o Decimal(h) \o <<",", " ">>
                \o Decimal(s) \o <<",", " ">> \o Decimal(l) \o <<")">>)

\* One call of Image.util.toColor on an hsl string; outcome.value is what
\* it returned.
ToColorCall(H, S, L) ==
    \E h \in H, s \in S, l \in L :
        /\ op' = [name |-> "toColor", points |-> <<>>, radius |-> Num(0),
                  color |-> HslString(h, s, l), hsl |-> <<h, s, l>>]
        /\ outcome' = [err |-> IF toColor(HslString(h, s, l)).ok THEN ""
                               ELSE "Invalid color",
                       calls |-> <<>>, writes |-> <<>>, nflush |-> 0, mutAt |-> {},
                       fdAt |-> <<>>, fdLow |-> flushDisablers,
                       before |-> buffer, pending |-> temporaryBuffer,
                       blending |-> blending, lineThickness |-> lineThickness,
                       value |-> toColor(HslString(h, s, l)).v]
        /\ UNCHANGED <<width, height, buffer, temporaryBuffer, flushDisablers,
                       blending, lineThickness, shadow>>

\* the program constructs a new image and takes its drawer
NewImage ==
    /\ op.name \in DrawNames
    /\ buffer' = NewBuffer(width, height)
    /\ temporaryBuffer' = <<>>
    /\ flushDisablers' = 0
    /\ blending' = TRUE
    /\ lineThickness' = Num(1)
    /\ op' = [name |-> "new", points |-> <<>>, radius |-> Num(0), color |-> NoColor]
    /\ outcome' = [err |-> "", calls |-> <<>>, writes |-> <<>>, nflush |-> 0,
                   mutAt |-> {}, fdAt |-> <<>>, fdLow |-> 0,
                   before |-> NewBuffer(width, height),
                   pending |-> <<>>, blending |-> TRUE, lineThickness |-> Num(1),
                   value |-> <<>>]
    /\ shadow' = [buf |-> NewBuffer(width, height), tb |-> <<>>, fd |-> 0]
    /\ ncalls' = 0
    /\ UNCHANGED <<width, height>>

----------------------------------------------------------------------------
(* Inputs *)

Side == 4

MaxPath == 3

White == StringColor(<<"#", "F", "F", "F", "F", "F", "F">>)

Black == StringColor(<<"#", "0", "0", "0", "0", "0", "0">>)

Red == StringColor(<<"#", "F", "F", "0", "0", "0", "0", "F", "F">>)

HalfBlue == StringColor(<<"#", "0", "0", "0", "0", "F", "F", "8", "0">>)

\* a hex string of neither 7 nor 9 characters
Malformed == StringColor(<<"#", "F", "F", "F">>)

\* the pixels of the image
Pixels == {Pt(x, y) : x \in 0..(width - 1), y \in 0..(height - 1)}

\* the integer points of the image and of a border of one pixel around it
Around == {Pt(x, y) : x \in (-1)..width, y \in (-1)..height}

\* points with a fractional coordinate: half a pixel inside the right edge,
\* and less than half a pixel outside the left edge
Fractional == { <<Sub(Num(width), <<1, 2>>), Num(0)>>, <<<<-2, 5>>, Num(1)>> }

Radii == {Num(0), Num(1), <<3, 2>>, Num(2)}

Corners == {Pt(0, 0), Pt(width - 1, 0), Pt(width - 1, height - 1), Pt(1, 2)}

\* the sequences of at most n elements of S
SeqsUpTo(S, n) == UNION {[1..k -> S] : k \in 0..n}

\* a drawing operation has been called on the image
Drawn == op.name \in DrawNames

\* nothing has been called on the image
Fresh == op.name = "new"

----------------------------------------------------------------------------
(* SpecShapes: a program that constructs an image, configures the drawer,
   may fill the image, and draws one shape *)

InitShapes == InitOf(Side, Side)

NextShapes ==
    \/ /\ Fresh
       /\ UNCHANGED ncalls
       /\ \/ SetBlending(BOOLEAN)
          \/ SetLineThickness({Num(1), Num(2), Num(3)})
          \/ Fill({Black})
    \/ /\ ~Drawn
       /\ UNCHANGED ncalls
       /\ \/ DrawLine(Pixels, Around, {HalfBlue})
          \/ DrawRectangle(Around \cup Fractional, Pixels \cup Fractional, {HalfBlue})
          \/ DrawFilledRectangle(Around \cup Fractional, Pixels \cup Fractional, {Red})
          \/ DrawCircle(Pixels \cup Fractional, Radii, {HalfBlue})
          \/ DrawFilledCircle(Pixels \cup Fractional, Radii, {HalfBlue})
          \/ DrawTriangle(Pixels \X Pixels \X Corners, {Red})
          \/ DrawPath(SeqsUpTo(Corners, MaxPath), {HalfBlue})
          \/ DrawBezier(SeqsUpTo(Corners, MaxPath), {HalfBlue})
    \/ NewImage

SpecShapes == InitShapes /\ [][NextShapes]_vars

----------------------------------------------------------------------------
(* Spec: a program that makes up to MaxCalls calls of fill and of the drawing
   operations on one drawer, some with a malformed colour or with too few
   points, and sets blending and lineThickness between them *)

MaxCalls == 3

Init == InitOf(Side, Side)

\* a path of too few points, and a path of two
Paths == {<<Pt(0, 0)>>, <<Pt(0, 0), Pt(2, 1)>>}

Next ==
    \/ /\ ncalls < MaxCalls
       /\ ncalls' = ncalls + 1
       /\ \/ Fill({Black, Malformed})
          \/ DrawLine({Pt(0, 0)}, {Pt(1, 1)}, {White, Malformed})
          \/ DrawFilledRectangle({Pt(1, 1)}, {Pt(2, 2)}, {Red})
          \/ DrawPath(Paths, {HalfBlue})
          \/ DrawBezier(Paths, {HalfBlue})
    \/ /\ UNCHANGED ncalls
       /\ \/ SetBlending(BOOLEAN)
          \/ SetLineThickness({Num(1), Num(3)})

Spec == Init /\ [][Next]_vars

----------------------------------------------------------------------------
(* SpecLine: a program that constructs an image of LineSide by LineSide
   pixels, may set blending and fill the image with black, and draws one
   line of thickness 1 in white *)

LineSide == 10

\* where the lines start: two corners, a pixel inside, a point outside
LineStarts == {Pt(0, 0), Pt(width - 1, 0), Pt(3, 7), Pt(-1, height)}

InitLine == InitOf(LineSide, LineSide)

NextLine ==
    \/ /\ Fresh
       /\ UNCHANGED ncalls
       /\ \/ SetBlending(BOOLEAN)
          \/ Fill({Black})
    \/ /\ ~Drawn
       /\ UNCHANGED ncalls
       /\ DrawLine(LineStarts, Around, {White})
    \/ NewImage

SpecLine == InitLine /\ [][NextLine]_vars

----------------------------------------------------------------------------
(* SpecImage: a program that may normalise an hsl string with toColor, which
   reads no state, and makes up to MaxCalls calls of Image.set and Image.add
   on one image *)

\* an integer pixel, a point that rounds to a pixel, a point outside
DirectPoints == {Pt(0, 0), <<<<1, 2>>, Num(0)>>, Pt(width, 0)}

\* a colour given as an array of four numbers
Faint == ArrayColor(<<10, 20, 30, 40>>)

Hues == {0, 30, 60, 120, 180, 240, 300, 359}

Percentages == {0, 50, 100}

InitImage == InitOf(Side, Side)

NextImage ==
    \/ /\ ncalls < MaxCalls
       /\ ncalls' = ncalls + 1
       /\ \/ ImageSetCall(DirectPoints, {Red, HalfBlue, Malformed})
          \/ ImageSetCall({Pt(0, 0)}, {Faint})
          \/ ImageAddCall(DirectPoints, {Red, HalfBlue, Malformed})
          \/ ImageAddCall({Pt(0, 0)}, {Faint})
    \/ /\ Fresh
       /\ UNCHANGED ncalls
       /\ ToColorCall(Hues, Percentages, Percentages)

SpecImage == InitImage /\ [][NextImage]_vars

----------------------------------------------------------------------------
(* Properties of a sequence of calls *)

\* the last call was a drawing operation with valid arguments: a colour that
\* toColor accepts and, for a path or a curve, at least 2 points
ValidDraw ==
    /\ Drawn
    /\ toColor(op.color).ok
    /\ op.name \in {"drawPath", "drawBezier"} => Len(op.points) >= 2

\* C2: a failure aborts only the operation that raised it.  A drawing
\* operation that throws leaves the buffer as it found it, and a drawing
\* operation with valid arguments returns and leaves the buffer as it is on
\* a drawer that was never given the calls that failed.
C2_FailureAbortsOnlyItself ==
    /\ (Drawn /\ outcome.err # "") => buffer = outcome.before
    /\ ValidDraw => (outcome.err = "" /\ buffer = shadow.buf)

\* C10: whenever no operation is in progress, nothing is pending in
\* temporaryBuffer, whether the operations so far returned or threw.
C10_NothingPendingBetweenCalls == temporaryBuffer = <<>>

----------------------------------------------------------------------------
(* Properties of one drawing operation *)

\* the pixels <<x, y>> on which the call called Image.add or Image.set
Written == {<<outcome.writes[i][2], outcome.writes[i][3]>> : i \in DOMAIN outcome.writes}

\* C1: with blending on, a drawing operation mutates the image buffer only in
\* the flush that ends it, the last call of flush it makes, and that flush
\* calls Image.add at most once for each pixel, however often the operation
\* and the operations it calls staged the pixel.
C1_BlendedOncePerOperation ==
    (Drawn /\ outcome.blending) =>
        /\ outcome.mutAt \subseteq {outcome.nflush}
        /\ \A i \in DOMAIN outcome.writes : outcome.writes[i][1] = "add"
        /\ Cardinality(Written) = Len(outcome.writes)

\* a line of thickness 3 drawn with blending on: its circles staged pixels
\* more than once, every flush but the last was suppressed, and the last
\* blended each pixel once
C1_ThickLineBlended ==
    /\ op.name = "drawLine"
    /\ outcome.blending
    /\ outcome.lineThickness = Num(3)
    /\ outcome.nflush > 2
    /\ outcome.mutAt = {outcome.nflush}
    /\ Len(outcome.writes) > 1
    /\ Len(outcome.calls) > Len(outcome.writes)

\* the pairs <<x, y>> of integers that are pixels of the image
ImagePixels == (0..(width - 1)) \X (0..(height - 1))

\* the pixel <<x, y>> a point rounds to, and the pixel at an integer point
Rounded(p) == <<RoundInt(p[1]), RoundInt(p[2])>>

IsIntegerPoint(p) == p[1][2] = 1 /\ p[2][2] = 1

\* the points the call passed to setPixel, rounded
Staged == {Rounded(outcome.calls[i]) : i \in DOMAIN outcome.calls}

\* the pixels of the buffer that the call changed
Changed == {q \in ImagePixels : buffer[q[2] * width + q[1]] # outcome.before[q[2] * width + q[1]]}

\* the bytes stored for a colour that toColor accepts
Stored(color) == [k \in 1..4 |-> ToUint8Clamp(toColor(color).v[k])]

\* C3: a staged write is decided by the rounded point.  A drawing operation
\* that starts with nothing pending writes exactly the pixels that the points
\* it staged round to and that lie in the image, and changes no other pixel.
C3_RoundedPointDecides ==
    (Drawn /\ outcome.err = "" /\ outcome.pending = <<>>) =>
        /\ Written = Staged \cap ImagePixels
        /\ Changed \subseteq Staged

\* C6: drawFilledRectangle on two integer corners, in either order, with an
\* opaque colour and blending off sets every pixel of the image inside the
\* inclusive bounding box of the corners to the colour and leaves every other
\* pixel as it was.
C6_FilledRectangleCoversBox ==
    ( /\ op.name = "drawFilledRectangle"
      /\ IsIntegerPoint(op.points[1]) /\ IsIntegerPoint(op.points[2])
      /\ ~outcome.blending
      /\ Stored(op.color)[4] = 255 ) =>
        \A q \in ImagePixels :
            buffer[q[2] * width + q[1]] =
                IF /\ Min(op.points[1][1][1], op.points[2][1][1]) <= q[1]
                   /\ q[1] <= Max(op.points[1][1][1], op.points[2][1][1])
                   /\ Min(op.points[1][2][1], op.points[2][2][1]) <= q[2]
                   /\ q[2] <= Max(op.points[1][2][1], op.points[2][2][1])
                THEN Stored(op.color)
                ELSE outcome.before[q[2] * width + q[1]]

\* the x position at scanline y of the edge from p to q, which is not
\* horizontal
EdgeAt(p, q, y) ==
    Add(p[1], Mul(Sub(Num(y), p[2]), Div(Sub(q[1], p[1]), Sub(q[2], p[2]))))

\* the rounded x positions at scanline y of the two edges of the triangle
\* a, b, c that cross it: the long edge a-c, and a-b above b or b-c from b on
LongEdgeAt(a, b, c, y) == RoundInt(EdgeAt(a, c, y))

ShortEdgeAt(a, b, c, y) ==
    RoundInt(IF y < b[2][1] THEN EdgeAt(a, b, y) ELSE EdgeAt(b, c, y))

\* the pixels between the two edges on scanline y, inclusive
Span(a, b, c, y) ==
    { <<x, y>> : x \in Min(LongEdgeAt(a, b, c, y), ShortEdgeAt(a, b, c, y))
                       ..Max(LongEdgeAt(a, b, c, y), ShortEdgeAt(a, b, c, y)) }

\* C7: for integer vertices in non-decreasing y order, drawTriangle stages on
\* each scanline y0 <= y < y2 exactly the pixels between the rounded x
\* positions of the two edges that cross the scanline; so it stages no pixel
\* outside the bounding box of the triangle.
C7_TriangleSpans ==
    (op.name = "drawTriangle") =>
        Staged = UNION { Span(op.points[1], op.points[2], op.points[3], y) :
                         y \in op.points[1][2][1]..(op.points[3][2][1] - 1) }

\* C9: drawBezier on at least 2 integer control points with the default step
\* returns, and its one trailing flush writes the pixel of the first and of
\* the last control point when they lie in the image.
C9_BezierReachesEnds ==
    (op.name = "drawBezier" /\ Len(op.points) >= 2 /\ toColor(op.color).ok
        /\ outcome.pending = <<>>) =>
        /\ outcome.err = ""
        /\ outcome.mutAt = {outcome.nflush}
        /\ \A k \in {1, Len(op.points)} :
               Rounded(op.points[k]) \in ImagePixels
                   => Rounded(op.points[k]) \in Written

----------------------------------------------------------------------------
(* Properties of drawLine *)

\* the points the call passed to setPixel are 8-adjacent from one to the next
Adjacent(p, q) ==
    Max(Abs(Rounded(p)[1] - Rounded(q)[1]), Abs(Rounded(p)[2] - Rounded(q)[2])) = 1

\* the last call drew the main diagonal from (0, 0) to (9, 9) in white on an
\* image that was black
DiagonalOnBlack ==
    /\ op.name = "drawLine"
    /\ op.points = <<Pt(0, 0), Pt(9, 9)>>
    /\ op.color = White
    /\ \A i \in DOMAIN outcome.before : outcome.before[i] = <<0, 0, 0, 255>>

\* C5: drawLine with lineThickness 1 on integer end points returns having
\* staged max(|x1 - x0|, |y1 - y0|) + 1 points, the first the start, the last
\* the end, each 8-adjacent to the one before; and the diagonal from (0, 0)
\* to (9, 9) drawn in white on black, with blending on or off, leaves the ten
\* pixels of the diagonal white and every other pixel black.
C5_LineConnectsEnds ==
    (op.name = "drawLine" /\ outcome.lineThickness = Num(1)) =>
        /\ outcome.err = ""
        /\ Len(outcome.calls) =
               Max(Abs(Rounded(op.points[2])[1] - Rounded(op.points[1])[1]),
                   Abs(Rounded(op.points[2])[2] - Rounded(op.points[1])[2])) + 1
        /\ outcome.calls[1] = op.points[1]
        /\ outcome.calls[Len(outcome.calls)] = op.points[2]
        /\ \A i \in 1..(Len(outcome.calls) - 1) :
               Adjacent(outcome.calls[i], outcome.calls[i + 1])
        /\ DiagonalOnBlack =>
               \A q \in ImagePixels :
                   buffer[q[2] * width + q[1]] =
                       IF q[1] = q[2] /\ q[1] <= 9 THEN <<255, 255, 255, 255>>
                       ELSE <<0, 0, 0, 255>>

\* the diagonal drawn on black with blending on: ten points staged, ten
\* pixels blended to white
C5_DiagonalDrawn ==
    /\ DiagonalOnBlack
    /\ outcome.blending
    /\ Len(outcome.calls) = 10
    /\ Len(outcome.writes) = 10
    /\ buffer[0] = <<255, 255, 255, 255>>
    /\ buffer[9 * width + 9] = <<255, 255, 255, 255>>

----------------------------------------------------------------------------
(* Properties of Image.add and of toColor *)

\* C4: Image.add of a colour of alpha 255 on a pixel of the image, whatever
\* the pixel held, leaves the buffer as Image.set of the colour on the pixel
\* would.
C4_OpaqueAddIsSet ==
    ( /\ op.name = "add"
      /\ IsIntegerPoint(op.points[1])
      /\ Rounded(op.points[1]) \in ImagePixels
      /\ toColor(op.color).ok
      /\ toColor(op.color).v[4] = Num(255) ) =>
        buffer = ImageSet(outcome.before, op.points[1], op.color).buf

\* the chroma, the second component and the match value of the standard
\* conversion from HSL, for h in [0, 360) and s, l in [0, 100]
Chroma(s, l) ==
    Mul(Sub(Num(1), RAbs(Sub(Div(Num(2 * l), Num(100)), Num(1)))),
        Div(Num(s), Num(100)))

Second(h, s, l) ==
    Mul(Chroma(s, l), Sub(Num(1), Div(Num(Abs((h % 120) - 60)), Num(60))))

Lightness(s, l) == Sub(Div(Num(l), Num(100)), Div(Chroma(s, l), Num(2)))

\* the components <<r, g, b>> before the match value is added
Components(h, s, l) ==
    IF h < 60 THEN <<Chroma(s, l), Second(h, s, l), Num(0)>>
    ELSE IF h < 120 THEN <<Second(h, s, l), Chroma(s, l), Num(0)>>
    ELSE IF h < 180 THEN <<Num(0), Chroma(s, l), Second(h, s, l)>>
    ELSE IF h < 240 THEN <<Num(0), Second(h, s, l), Chroma(s, l)>>
    ELSE IF h < 300 THEN <<Second(h, s, l), Num(0), Chroma(s, l)>>
    ELSE <<Chroma(s, l), Num(0), Second(h, s, l)>>

\* the standard conversion: each channel is round((component + m) * 255)
StandardHsl(h, s, l) ==
    [k \in 1..4 |->
        IF k = 4 THEN Num(255)
        ELSE MathRound(Mul(Add(Components(h, s, l)[k], Lightness(s, l)), Num(255)))]

\* C8: for h in [0, 360) and s, l in [0, 100], toColor on the string
\* hsl(h, s, l) returns the standard conversion from HSL to RGB with alpha
\* 255; so hsl(0, 100, 50) gives [255, 0, 0, 255], hsl(120, 100, 50) gives
\* [0, 255, 0, 255] and hsl(240, 100, 50) gives [0, 0, 255, 255].
C8_StandardHslConversion ==
    (op.name = "toColor") =>
        /\ outcome.err = ""
        /\ outcome.value = StandardHsl(op.hsl[1], op.hsl[2], op.hsl[3])
        /\ op.hsl = <<0, 100, 50>> => outcome.value = <<Num(255), Num(0), Num(0), Num(255)>>
        /\ op.hsl = <<120, 100, 50>> => outcome.value = <<Num(0), Num(255), Num(0), Num(255)>>
        /\ op.hsl = <<240, 100, 50>> => outcome.value = <<Num(0), Num(0), Num(255), Num(255)>>

(* ---------------------------------------------------------------------- *)
(* The suppression depth, flushDisablers                                   *)

\* the operations that delegate to a sub-operation: drawPath and drawBezier
\* on at least 2 points, and drawLine with lineThickness > 1
Composite ==
    \/ op.name \in {"drawPath", "drawBezier"} /\ Len(op.points) >= 2
    \/ op.name = "drawLine" /\ Lt(Num(1), outcome.lineThickness)

\* C11: flushDisablers is never negative during an operation and is 0 between
\* top-level operations, whether they returned or threw; the calls of flush
\* made by sub-operations, all but the last, find it nonzero, which only
\* happens in a composite operation and does happen in every drawPath and
\* thick drawLine, and the flush that ends the top-level operation finds it
\* 0, so it is never suppressed.
C11_SuppressionDepthBalanced ==
    /\ flushDisablers = 0
    /\ outcome.fdLow >= 0
    /\ \A i \in DOMAIN outcome.fdAt :
           /\ i < Len(outcome.fdAt) => outcome.fdAt[i] > 0 /\ Composite
           /\ i = Len(outcome.fdAt) => outcome.fdAt[i] = 0
    /\ op.name \in DrawNames /\ outcome.err # "Invalid points"
           => Len(outcome.fdAt) >= 1
    /\ Composite /\ op.name # "drawBezier"
           => \E i \in DOMAIN outcome.fdAt : outcome.fdAt[i] > 0

\* a path of thick lines, so with flushes at depth 2, whose final flush threw
\* on an entry left pending by an earlier failed operation
C11_FailedThickPath ==
    /\ op.name = "drawPath"
    /\ outcome.err = "Invalid color"
    /\ outcome.pending # <<>>
    /\ \E i \in DOMAIN outcome.fdAt : outcome.fdAt[i] = 2
    /\ flushDisablers = 0

====
